---- MODULE Spec2Model ----
(***************************************************************************)
(* A model of the region codec of anvil-tools: RegionFileWriter (create,   *)
(* add_chunk, drop) and RegionFile (open, stream_chunks), src/region.rs.   *)
(*                                                                         *)
(* A file is a record [exists, len, hdr, ext]:                             *)
(*   len  its length in bytes;                                             *)
(*   hdr  the bytes of the location header that are not zero, as a         *)
(*        function from slot index to 4 big-endian bytes (a slot that is   *)
(*        not in the domain holds four zero bytes);                        *)
(*   ext  the payload writes made to it, in order, each an extent          *)
(*        [at, n, frame]: a framed stream written at sector `at` and       *)
(*        covering n sectors. Bytes never written are zero (set_len).      *)
(* Lengths that are only compared with sector boundaries are kept in       *)
(* sectors, so that no product exceeds the checker's integers.             *)
(***************************************************************************)
EXTENDS Integers, Sequences, FiniteSets, TLC

VARIABLES file,          \* the region file on disk
          wstate,        \* the writer: "none", "open", "closed", "panicked"
          used_sectors,  \* RegionFileWriter.used_sectors
          capacity,      \* RegionFileWriter.capacity (bytes)
          log,           \* history: the add_chunk calls that returned Ok
          called,        \* history: the arguments of the last add_chunk call
          rstate,        \* the reader: "none", "open", "failed", "panicked"
          index,         \* ChunkIterator.index
          out,           \* history: the elements yielded that are not
                         \* `absent`, by slot (index counts all of them)
          ended,         \* the iterator has returned None
          epc, ein, eout,  \* the header entry exercised on its own
          \* unpack (commands/archive.rs)
          archive,       \* the entries of the tar archive, in order
          sent,          \* entries the producer loop has sent
          chan,          \* sync_channel(4): entries in flight
          ppc,           \* the producer (unpack_files_with_reader)
          cpc,           \* the consumer thread (receive_thread)
          chunk_entry,   \* the ChunkEntry unpack_file is working on
          taken,         \* history: entries the consumer has received
          region_cache,  \* the LruCache, most recently used first
          cache_lock,    \* the cache mutex is held
          writers,       \* every RegionFileWriter created, by creation order
          files,         \* the region files of the output directory
          region_writer, \* the writer unpack_file holds a clone of (0: none)
          writer_lock,   \* the writer whose mutex is held (0: none)
          \* add_chunk calls that fail (region.rs)
          faults,        \* history: the add_chunk calls that returned Err
          \* two writers at distinct paths, one thread each
          pair,          \* the two writers and their files
          \* strip_chunk (commands/strip.rs, main.rs)
          nbt,           \* the chunk handed to strip_chunk
          stripped,      \* the chunk it returned
          restripped,    \* the chunk a second call returned for `stripped`
          spc,           \* "in", "done", "failed", "panicked", "off"
          variant,       \* which strip_chunk ran: "commands" or "main"
          \* pack_region (commands/archive.rs)
          pack           \* the region read, the worker threads, the channel,
                         \* the consumer and the archive

uvars == <<archive, sent, chan, ppc, cpc, chunk_entry, taken, region_cache,
           cache_lock, writers, files, region_writer, writer_lock>>

wvars == <<file, wstate, used_sectors, capacity, log, called>>
rvars == <<rstate, index, out, ended>>
evars == <<epc, ein, eout>>

svars == <<nbt, stripped, restripped, spc, variant>>

\* The state of the operations modelled apart from the single writer and reader
xvars == <<uvars, faults, pair, svars, pack>>

\* The state unpack leaves alone
nonunpack == <<wvars, rvars, evars, faults, pair, svars, pack>>

vars == <<wvars, rvars, evars, xvars>>

---------------------------------------------------------------------------
(* Constants of region.rs *)

ENTRY_COUNT == 1024
ENTRY_LENGTH == 4
HEADER_SIZE == ENTRY_COUNT * ENTRY_LENGTH
REGION_LOCATION_OFFSET == 0
SECTOR_SIZE == 4096
INITIAL_CAPACITY == HEADER_SIZE * 2

(* Bound of the model: add_chunk calls made on one writer. *)
MaxAdds == 2

(* The longest archive of the enumerated family handed to unpack *)
MaxEntries == 3

---------------------------------------------------------------------------
(* Integer helpers *)

Byte == 0..255

RECURSIVE BitOr(_, _)
BitOr(a, b) ==
    IF a = 0 THEN b
    ELSE IF b = 0 THEN a
    ELSE (IF a % 2 = 1 \/ b % 2 = 1 THEN 1 ELSE 0) + 2 * BitOr(a \div 2, b \div 2)

(* Rust's % on i32: the remainder takes the sign of the dividend. *)
Rem(a, n) == IF a >= 0 THEN a % n ELSE -((-a) % n)

CeilDiv(a, n) == (a + n - 1) \div n

(* u32::to_be_bytes, for a value below 2^31 *)
to_be_bytes(v) ==
    << (v \div 16777216) % 256, (v \div 65536) % 256, (v \div 256) % 256, v % 256 >>

ZeroEntry == <<0, 0, 0, 0>>

---------------------------------------------------------------------------
(* Values: chunk positions and chunk payloads *)

ChunkPos(x, z) == [x |-> x, z |-> z]

(* The payloads handed to add_chunk. DataLen is the length of the buffer,   *)
(* ZlibLen the length of its zlib stream (the first is compressible, the    *)
(* other two are random bytes, which deflate stores with 5 bytes for every  *)
(* block of at most 65535, after a 2-byte header and before a 4-byte sum).  *)
Payloads == {"hello", "rand10k", "rand1m"}

DataLen(d) ==
    CASE d = "hello"   -> 5
      [] d = "rand10k" -> 10000
      [] d = "rand1m"  -> 1046000

ZlibLen(d) ==
    CASE d = "hello"   -> 13
      [] d = "rand10k" -> 10000 + 5 + 6
      [] d = "rand1m"  -> 1046000 + (16 * 5) + 6

(* The positions handed to add_chunk: inside the region, outside it, and    *)
(* at the ends of the i32 range.                                            *)
Positions ==
    { ChunkPos(0, 0), ChunkPos(5, 7), ChunkPos(31, 31),
      ChunkPos(33, 0), ChunkPos(-1, 1), ChunkPos(-1, 0),
      ChunkPos(2147483647, -2147483647) }

InRegion(pos) == pos.x \in 0..31 /\ pos.z \in 0..31

---------------------------------------------------------------------------
(* CompressionMode *)

Gzip == "Gzip"
Zlib == "Zlib"
Uncompressed == "Uncompressed"
NoMode == "None"

from_int(int) ==
    CASE int = 1 -> Gzip
      [] int = 2 -> Zlib
      [] int = 3 -> Uncompressed
      [] OTHER   -> NoMode

to_int(mode) ==
    CASE mode = Gzip         -> 1
      [] mode = Zlib         -> 2
      [] mode = Uncompressed -> 3

---------------------------------------------------------------------------
(* RegionFileWriter: the framing of a chunk *)

(* create_compressed_chunk_payload: the compression byte, then the zlib     *)
(* stream of the payload. `len` counts the byte and the stream.             *)
create_compressed_chunk_payload(d) ==
    [ mode   |-> to_int(Zlib),
      fmt    |-> "zlib",
      of     |-> d,
      len    |-> 1 + ZlibLen(d) ]

(* create_chunk_data_stream: the 4-byte big-endian length of the payload,   *)
(* then the payload.                                                        *)
create_chunk_data_stream(d) ==
    LET payload == create_compressed_chunk_payload(d)
    IN  [ exact_length |-> payload.len,
          payload      |-> payload,
          len          |-> 4 + payload.len ]

---------------------------------------------------------------------------
(* RegionFileWriter: the header entry *)

(* (v << 8) on u32, as big-endian bytes: the top byte of v is shifted out. *)
Shl8(v) == << (v \div 65536) % 256, (v \div 256) % 256, v % 256, 0 >>

(* As EntryData, had the field been stored with to_le_bytes. *)
EntryData_LittleEndian(sector_index, sector_count) ==
    LET a == Shl8(sector_index)
        b == to_be_bytes(sector_count)
    IN  [k \in 1..4 |-> BitOr(a[5 - k], b[5 - k])]

(* u32::to_be_bytes((entry.sector_index << 8) | entry.sector_count) *)
EntryData(sector_index, sector_count) ==
    LET a == Shl8(sector_index)
        b == to_be_bytes(sector_count)
    IN  [k \in 1..4 |-> BitOr(a[k], b[k])]

(* As EntryIndex, had x and z been taken the other way round. *)
EntryIndex_Transposed(pos) == Rem(pos.z, 32) + (Rem(pos.x, 32) * 32)

(* (entry.position.x % 32) + ((entry.position.z % 32) * 32), on i32 *)
EntryIndex(pos) == Rem(pos.x, 32) + (Rem(pos.z, 32) * 32)

(* The slice header_map[entry_offset..entry_offset + 4] is out of range:    *)
(* a negative index cast to usize lies beyond the 8192 mapped bytes.        *)
WriteEntryPanics(pos) ==
    \/ EntryIndex(pos) < 0
    \/ (EntryIndex(pos) * 4) + 4 > INITIAL_CAPACITY

(* A header with the 4 bytes of one slot replaced. *)
SetEntry(hdr, slot, bytes) ==
    LET dom == IF bytes = ZeroEntry THEN DOMAIN hdr \ {slot}
                                    ELSE DOMAIN hdr \cup {slot}
    IN  [i \in dom |-> IF i = slot THEN bytes ELSE hdr[i]]

(* write_entry, when it does not panic *)
write_entry(hdr, pos, sector_index, sector_count) ==
    SetEntry(hdr, EntryIndex(pos), EntryData(sector_index, sector_count))

---------------------------------------------------------------------------
(* RegionFileWriter: the file *)

NoFile == [exists |-> FALSE, len |-> 0, hdr |-> << >>, ext |-> << >>]

(* As TruncatedFile, had the file been opened without .truncate(true): the  *)
(* old header entries and sectors stay.                                     *)
TruncatedFile_Kept(old, cap) ==
    [old EXCEPT !.exists = TRUE, !.len = cap]

(* OpenOptions .create(true).truncate(true), then set_len(capacity): the    *)
(* old content is discarded and the two header sectors read as zero.        *)
TruncatedFile(old, cap) ==
    [exists |-> TRUE, len |-> cap, hdr |-> << >>, ext |-> << >>]

(* As SectorCount, had the division rounded down. *)
SectorCount_Floor(data) == data.len \div SECTOR_SIZE

(* The sector count of a framed stream: (data.len() + SECTOR_SIZE - 1) / SECTOR_SIZE *)
SectorCount(data) == CeilDiv(data.len, SECTOR_SIZE)

Max(a, b) == IF a >= b THEN a ELSE b

(* write_data: the capacity it leaves in self.capacity *)
GrownCapacity(cap, sector_index, sector_count) ==
    LET needed == (sector_index + sector_count) * SECTOR_SIZE
    IN  IF cap < needed THEN needed ELSE cap

(* As write_data, had the file been grown to the end of the data instead of *)
(* the end of its last sector.                                              *)
write_data_Unpadded(f, cap, sector_index, sector_count, data) ==
    LET needed == (sector_index * SECTOR_SIZE) + data.len
        grown  == IF cap < needed THEN needed ELSE f.len
    IN  [f EXCEPT !.len = Max(grown, needed),
                  !.ext = Append(@, [at |-> sector_index,
                                     n  |-> CeilDiv(data.len, SECTOR_SIZE),
                                     frame |-> data])]

(* write_data: the file after set_len (when the capacity grows), seek and   *)
(* write_all of the framed stream at sector_index * SECTOR_SIZE.            *)
write_data(f, cap, sector_index, sector_count, data) ==
    LET needed == (sector_index + sector_count) * SECTOR_SIZE
        grown  == IF cap < needed THEN needed ELSE f.len
    IN  [f EXCEPT !.len = Max(grown, (sector_index * SECTOR_SIZE) + data.len),
                  !.ext = Append(@, [at |-> sector_index,
                                     n  |-> CeilDiv(data.len, SECTOR_SIZE),
                                     frame |-> data])]

---------------------------------------------------------------------------
(* RegionFileWriter: the operations *)

NoCall == [position |-> ChunkPos(0, 0), data |-> ""]

(* RegionFileWriter::create *)
Create ==
    /\ wstate = "none"
    /\ rstate = "none"
    /\ file' = TruncatedFile(file, INITIAL_CAPACITY)
    /\ wstate' = "open"
    /\ used_sectors' = 2
    /\ capacity' = INITIAL_CAPACITY
    /\ log' = << >>
    /\ called' = NoCall
    /\ UNCHANGED <<rvars, evars, xvars>>

(* RegionFileWriter::add_chunk. The data is written before the entry, so a *)
(* panic in write_entry leaves the sectors written and the counter as it   *)
(* was; the process unwinds and no further call is made on the writer.     *)
AddChunk(pos, d) ==
    /\ wstate = "open"
    /\ Len(log) < MaxAdds
    /\ called' = [position |-> pos, data |-> d]
    /\ LET data         == create_chunk_data_stream(d)
           sector_count == SectorCount(data)
           sector_index == used_sectors
           written      == write_data(file, capacity, sector_index, sector_count, data)
       IN  /\ capacity' = GrownCapacity(capacity, sector_index, sector_count)
           /\ IF WriteEntryPanics(pos)
              THEN /\ file' = written
                   /\ wstate' = "panicked"
                   /\ UNCHANGED <<used_sectors, log>>
              ELSE /\ file' = [written EXCEPT
                                 !.hdr = write_entry(@, pos, sector_index, sector_count)]
                   /\ used_sectors' = used_sectors + sector_count
                   /\ log' = Append(log, [position     |-> pos,
                                          data         |-> d,
                                          sector_index |-> sector_index,
                                          sector_count |-> sector_count])
                   /\ UNCHANGED wstate
    /\ UNCHANGED <<rvars, evars, xvars>>

(* Drop for RegionFileWriter: header_map.flush(), file.flush() *)
Drop ==
    /\ wstate = "open"
    /\ wstate' = "closed"
    /\ UNCHANGED <<file, used_sectors, capacity, log, called, rvars, evars, xvars>>

---------------------------------------------------------------------------
(* RegionFileWriter: add_chunk calls that return an I/O error *)

(* The calls of write_data that can fail *)
Faults == {"set_len", "seek", "write"}

(* set_len is called only when the capacity has to grow. *)
FaultCanHappen(cap, sector_index, sector_count, fault) ==
    fault = "set_len" => cap < (sector_index + sector_count) * SECTOR_SIZE

(* As FailedAddChunk, had the sectors been reserved before the data was     *)
(* written.                                                                 *)
FailedAddChunk_Reserved(f, cap, used, d, fault) ==
    LET data         == create_chunk_data_stream(d)
        sector_count == SectorCount(data)
        needed       == (used + sector_count) * SECTOR_SIZE
        grew         == fault # "set_len" /\ cap < needed
    IN  [file         |-> IF grew THEN [f EXCEPT !.len = needed] ELSE f,
         capacity     |-> IF grew THEN needed ELSE cap,
         used_sectors |-> used + sector_count]

(* The writer and its file after an add_chunk whose write_data returned an  *)
(* error: `?` leaves before write_entry and before used_sectors grows. A    *)
(* failed set_len changes nothing; after it, the file and self.capacity     *)
(* have grown. The bytes a failed write_all left past used_sectors are in   *)
(* sectors no header entry names, and are not held.                         *)
FailedAddChunk(f, cap, used, d, fault) ==
    LET data         == create_chunk_data_stream(d)
        sector_count == SectorCount(data)
        needed       == (used + sector_count) * SECTOR_SIZE
        grew         == fault # "set_len" /\ cap < needed
    IN  [file         |-> IF grew THEN [f EXCEPT !.len = needed] ELSE f,
         capacity     |-> IF grew THEN needed ELSE cap,
         used_sectors |-> used]

(* RegionFileWriter::add_chunk returning Err *)
AddChunkFails(pos, d, fault) ==
    /\ wstate = "open"
    /\ Len(faults) < MaxAdds
    /\ FaultCanHappen(capacity, used_sectors,
                      SectorCount(create_chunk_data_stream(d)), fault)
    /\ LET after == FailedAddChunk(file, capacity, used_sectors, d, fault)
       IN  /\ file' = after.file
           /\ capacity' = after.capacity
           /\ used_sectors' = after.used_sectors
    /\ called' = [position |-> pos, data |-> d]
    /\ faults' = Append(faults, [position |-> pos, data |-> d,
                                 fault |-> fault, at |-> Len(log)])
    /\ UNCHANGED <<wstate, log, rvars, evars, uvars, pair, svars, pack>>

---------------------------------------------------------------------------
(* Two RegionFileWriters at distinct paths, one thread each. add_chunk is   *)
(* taken in its two steps, write_data and write_entry, so that the steps of *)
(* the two threads interleave.                                              *)

Threads == {1, 2}

NoPending == [position |-> ChunkPos(0, 0), data |-> "", sector_index |-> 0, sector_count |-> 0]

(* A writer that is not created yet, over the file at its path *)
NoWriter(f) ==
    [initial |-> f, file |-> f, wstate |-> "none", used_sectors |-> 0, capacity |-> 0,
     calls |-> << >>, pc |-> "idle", pending |-> NoPending]

(* As SectorIndexOf, had used_sectors been one counter for all writers. *)
SectorIndexOf_Shared(p, t) ==
    Max(p[1].used_sectors, p[2].used_sectors)

(* let sector_index = self.used_sectors *)
SectorIndexOf(p, t) == p[t].used_sectors

(* RegionFileWriter::create by thread t *)
PairCreate(t) ==
    /\ pair[t].wstate = "none"
    /\ pair' = [pair EXCEPT ![t] = [@ EXCEPT
                  !.file = TruncatedFile(pair[t].file, INITIAL_CAPACITY),
                  !.wstate = "open",
                  !.used_sectors = 2,
                  !.capacity = INITIAL_CAPACITY]]
    /\ UNCHANGED <<wvars, rvars, evars, uvars, faults, svars, pack>>

(* add_chunk by thread t, up to the return of write_data *)
PairWriteData(t, pos, d) ==
    /\ pair[t].wstate = "open"
    /\ pair[t].pc = "idle"
    /\ Len(pair[t].calls) < MaxAdds
    /\ LET w            == pair[t]
           data         == create_chunk_data_stream(d)
           sector_count == SectorCount(data)
           sector_index == SectorIndexOf(pair, t)
       IN  pair' = [pair EXCEPT ![t] = [@ EXCEPT
                      !.file = write_data(w.file, w.capacity, sector_index, sector_count, data),
                      !.capacity = GrownCapacity(w.capacity, sector_index, sector_count),
                      !.calls = Append(@, [position |-> pos, data |-> d]),
                      !.pc = "entry",
                      !.pending = [position |-> pos, data |-> d,
                                   sector_index |-> sector_index,
                                   sector_count |-> sector_count]]]
    /\ UNCHANGED <<wvars, rvars, evars, uvars, faults, svars, pack>>

(* add_chunk by thread t, from write_entry to its return *)
PairWriteEntry(t) ==
    /\ pair[t].pc = "entry"
    /\ LET c == pair[t].pending
       IN  pair' = [pair EXCEPT ![t] =
                      IF WriteEntryPanics(c.position)
                      THEN [@ EXCEPT !.wstate = "panicked", !.pc = "idle",
                                     !.pending = NoPending]
                      ELSE [@ EXCEPT !.file.hdr = write_entry(@, c.position,
                                                              c.sector_index, c.sector_count),
                                     !.used_sectors = @ + c.sector_count,
                                     !.pc = "idle",
                                     !.pending = NoPending]]
    /\ UNCHANGED <<wvars, rvars, evars, uvars, faults, svars, pack>>

(* Drop for RegionFileWriter by thread t *)
PairDrop(t) ==
    /\ pair[t].wstate = "open"
    /\ pair[t].pc = "idle"
    /\ pair' = [pair EXCEPT ![t].wstate = "closed"]
    /\ UNCHANGED <<wvars, rvars, evars, uvars, faults, svars, pack>>

(* add_chunk run in one piece on a writer that no other thread is near *)
AddChunkAlone(w, call) ==
    LET data         == create_chunk_data_stream(call.data)
        sector_count == SectorCount(data)
        sector_index == w.used_sectors
        written      == write_data(w.file, w.capacity, sector_index, sector_count, data)
        capacity_    == GrownCapacity(w.capacity, sector_index, sector_count)
    IN  IF w.wstate # "open" THEN w
        ELSE IF WriteEntryPanics(call.position)
        THEN [w EXCEPT !.file = written, !.capacity = capacity_, !.wstate = "panicked"]
        ELSE [w EXCEPT !.file = [written EXCEPT
                                   !.hdr = write_entry(@, call.position,
                                                       sector_index, sector_count)],
                       !.capacity = capacity_,
                       !.used_sectors = @ + sector_count]

RECURSIVE RunAlone(_, _)
(* The writer after create and the first n calls of a sequence, run in a    *)
(* single thread over the file f                                            *)
RunAlone(f, calls) ==
    IF calls = << >>
    THEN [file |-> TruncatedFile(f, INITIAL_CAPACITY), wstate |-> "open",
          used_sectors |-> 2, capacity |-> INITIAL_CAPACITY]
    ELSE AddChunkAlone(RunAlone(f, SubSeq(calls, 1, Len(calls) - 1)), calls[Len(calls)])

---------------------------------------------------------------------------
(* strip_chunk: the tag tree *)

(* A tag as it lies in the bytes of a chunk: the children of a compound are *)
(* a sequence of <<name, tag>>, the elements of a list a sequence of tags.  *)
Tag(tag, v) == [tag |-> tag, v |-> v, kids |-> << >>, elems |-> << >>]

CompoundOf(kids) == [tag |-> "Compound", v |-> "", kids |-> kids, elems |-> << >>]

ListOf(elems) == [tag |-> "List", v |-> "", kids |-> << >>, elems |-> elems]

(* Bytes that are no tag tree *)
Invalid == Tag("Invalid", "")

RECURSIVE from_bytes(_)
(* fastnbt::from_bytes / nbt::Blob::from_reader of a well-formed tree: a    *)
(* compound becomes a map from names to values (here the set of its         *)
(* <<name, value>> pairs), which forgets the order of the children.         *)
from_bytes(b) ==
    [tag   |-> b.tag,
     v     |-> b.v,
     kids  |-> {<<b.kids[i][1], from_bytes(b.kids[i][2])>> : i \in DOMAIN b.kids},
     elems |-> [i \in DOMAIN b.elems |-> from_bytes(b.elems[i])]]

RECURSIVE to_writer(_), KidOrders(_), ElemEncodings(_)
(* fastnbt::to_writer / Blob::to_writer: the byte forms a value can be      *)
(* written as. The children of a compound are written in the iteration      *)
(* order of a hash map, which is any order.                                 *)
to_writer(value) ==
    {[tag |-> value.tag, v |-> value.v, kids |-> ks, elems |-> es] :
        ks \in KidOrders(value.kids), es \in ElemEncodings(value.elems)}

KidOrders(kids) ==
    IF kids = {} THEN {<< >>}
    ELSE UNION {{<< <<k[1], e>> >> \o rest :
                    e \in to_writer(k[2]), rest \in KidOrders(kids \ {k})} : k \in kids}

ElemEncodings(elems) ==
    IF elems = << >> THEN {<< >>}
    ELSE {<<e>> \o rest : e \in to_writer(Head(elems)), rest \in ElemEncodings(Tail(elems))}

(* HashMap::remove *)
remove(compound, name) ==
    [compound EXCEPT !.kids = {k \in @ : k[1] # name}]

Has(compound, name) == \E k \in compound.kids : k[1] = name

(* HashMap::get of a name that is there *)
get(compound, name) == (CHOOSE k \in compound.kids : k[1] = name)[2]

(* A compound with the value of one child replaced *)
WithKid(compound, name, value) ==
    [compound EXCEPT !.kids = {k \in @ : k[1] # name} \cup {<<name, value>>}]

(* if let Value::Compound(section) = section { remove SkyLight, BlockLight } *)
StripSection(section) ==
    IF section.tag = "Compound"
    THEN remove(remove(section, "SkyLight"), "BlockLight")
    ELSE section

(* if let Some(Value::List(sections)) = level.get_mut("sections") { .. } *)
StripSections(level) ==
    IF Has(level, "sections") /\ get(level, "sections").tag = "List"
    THEN WithKid(level, "sections",
                 [get(level, "sections") EXCEPT
                    !.elems = [i \in DOMAIN @ |-> StripSection(@[i])]])
    ELSE level

(* As StripValue, had the removals been applied to the children of a Level  *)
(* compound as well.                                                        *)
StripValue_WithLevel(value) ==
    LET top == IF value.tag = "Compound"
               THEN StripSections(remove(remove(value, "Heightmaps"), "isLightOn"))
               ELSE value
    IN  IF top.tag = "Compound" /\ Has(top, "Level") /\ get(top, "Level").tag = "Compound"
        THEN WithKid(top, "Level",
                     StripSections(remove(remove(get(top, "Level"), "Heightmaps"),
                                          "isLightOn")))
        ELSE top

(* commands/strip.rs, strip_chunk: what it does to the parsed value *)
StripValue(value) ==
    IF value.tag = "Compound"
    THEN StripSections(remove(remove(value, "Heightmaps"), "isLightOn"))
    ELSE value

(* main.rs, strip_chunk: nbt.get_mut("Level") is a compound *)
HasLevel(blob) ==
    blob.tag = "Compound" /\ Has(blob, "Level") /\ get(blob, "Level").tag = "Compound"

(* main.rs, strip_chunk: what it does to a blob that has a Level compound *)
StripBlob(blob) ==
    WithKid(blob, "Level", remove(remove(get(blob, "Level"), "Heightmaps"), "isLightOn"))

(* Chunk::with_data *)
with_data(chunk, data) == [position |-> chunk.position, data |-> data]

NoChunk == [position |-> ChunkPos(0, 0), data |-> Invalid]

(* commands/strip.rs, strip_chunk. Bytes that are no tag tree are an error; *)
(* a root that is no compound is refused by the decoder or passed through,  *)
(* both are modelled.                                                       *)
StripChunk ==
    /\ spc = "in"
    /\ variant' = "commands"
    /\ \/ /\ nbt.data.tag # "Compound"
          /\ spc' = "failed"
          /\ stripped' = NoChunk
       \/ /\ nbt.data.tag # "Invalid"
          /\ \E data \in to_writer(StripValue(from_bytes(nbt.data))) :
                stripped' = with_data(nbt, data)
          /\ spc' = "done"
    /\ UNCHANGED <<nbt, restripped, wvars, rvars, evars, uvars, faults, pair, pack>>

(* commands/strip.rs, strip_chunk called on the chunk a first call returned *)
StripAgain ==
    /\ spc = "done"
    /\ variant = "commands"
    /\ \/ /\ stripped.data.tag # "Compound"
          /\ spc' = "failed again"
          /\ restripped' = NoChunk
       \/ /\ \E data \in to_writer(StripValue(from_bytes(stripped.data))) :
                restripped' = with_data(stripped, data)
          /\ spc' = "done again"
    /\ UNCHANGED <<nbt, stripped, variant, wvars, rvars, evars, uvars, faults, pair, pack>>

(* main.rs, strip_chunk. A blob without a Level compound is a panic. *)
MainStripChunk ==
    /\ spc = "in"
    /\ variant' = "main"
    /\ IF nbt.data.tag # "Compound"
       THEN /\ spc' = "failed"
            /\ stripped' = NoChunk
       ELSE IF ~HasLevel(from_bytes(nbt.data))
       THEN /\ spc' = "panicked"
            /\ stripped' = NoChunk
       ELSE /\ \E data \in to_writer(StripBlob(from_bytes(nbt.data))) :
                  stripped' = with_data(nbt, data)
            /\ spc' = "done"
    /\ UNCHANGED <<nbt, restripped, wvars, rvars, evars, uvars, faults, pair, pack>>

---------------------------------------------------------------------------
(* RegionFile: the elements of the chunk stream *)

Absent == [kind |-> "absent"]
Present(pos, data) == [kind |-> "chunk", position |-> pos, data |-> data]
Failed == [kind |-> "err"]
Panic == [kind |-> "panic"]

(* The bytes of a stream read as they are: the payload it was made from     *)
(* when the stream is raw and whole, other bytes otherwise.                 *)
RawBytes(payload, avail) ==
    IF payload.fmt = "raw" /\ avail >= payload.len - 1
    THEN payload.of
    ELSE <<"bytes", payload.fmt, payload.of, avail>>

---------------------------------------------------------------------------
(* RegionFile: read_entry *)

(* self.map[entry_offset..(entry_offset + 4)] is out of range *)
ReadEntryPanics(f, entry_index) ==
    (REGION_LOCATION_OFFSET + (entry_index * 4)) + 4 > f.len

HeaderBytes(f, entry_index) ==
    IF entry_index \in DOMAIN f.hdr THEN f.hdr[entry_index] ELSE ZeroEntry

(* (entry_field >> 8) & 0xFFFFFF of the big-endian field *)
DecodeSectorIndex(bytes) == (bytes[1] * 65536) + (bytes[2] * 256) + bytes[3]

(* entry_field & 0xFF *)
DecodeSectorCount(bytes) == bytes[4]

(* read_entry for an entry that is in range: None for a zero field *)
read_entry(f, entry_index) ==
    LET bytes == HeaderBytes(f, entry_index)
    IN  IF bytes = ZeroEntry
        THEN [some |-> FALSE]
        ELSE [some         |-> TRUE,
              position     |-> ChunkPos(entry_index % 32, entry_index \div 32),
              sector_index |-> DecodeSectorIndex(bytes),
              sector_count |-> DecodeSectorCount(bytes)]

---------------------------------------------------------------------------
(* RegionFile: get_chunk_from_entry *)

(* &self.map[offset..(offset + length)] is out of range: the end of the     *)
(* range, (sector_index + sector_count) * SECTOR_SIZE, lies past the map.   *)
SlicePanics(f, entry) ==
    entry.sector_index + entry.sector_count > f.len \div SECTOR_SIZE

(* The writes that cover sector s, by their place in f.ext *)
Covering(f, s) ==
    {k \in 1..Len(f.ext) : f.ext[k].at <= s /\ s < f.ext[k].at + f.ext[k].n}

LastOf(S) == CHOOSE k \in S : \A j \in S : j <= k

(* The stream of extent k is whole: no later write overlaps it. *)
Intact(f, k) ==
    \A j \in (k + 1)..Len(f.ext) :
        \/ f.ext[j].at + f.ext[j].n <= f.ext[k].at
        \/ f.ext[k].at + f.ext[k].n <= f.ext[j].at

(* The decoders over the bytes left to data_stream: `avail` of them. *)
Decompress(mode, payload, avail) ==
    CASE mode = Gzip ->
           IF payload.fmt = "gzip" /\ avail >= payload.len - 1
           THEN [ok |-> TRUE, data |-> payload.of] ELSE [ok |-> FALSE]
      [] mode = Zlib ->
           IF payload.fmt = "zlib" /\ avail >= payload.len - 1
           THEN [ok |-> TRUE, data |-> payload.of] ELSE [ok |-> FALSE]
      [] mode = Uncompressed ->
           [ok |-> TRUE, data |-> RawBytes(payload, avail)]

Min(a, b) == IF a <= b THEN a ELSE b

(* The outcomes of get_chunk_from_entry on a slice that is in range. A      *)
(* slice that begins where a framed stream begins is decoded from that      *)
(* stream; one that begins in zero bytes reads exact_length = 0; one that   *)
(* begins inside a stream reads bytes this model does not hold, and may     *)
(* end in any of the three ways.                                            *)
DecodeOutcomes(f, entry) ==
    LET cov == Covering(f, entry.sector_index)
    IN  IF entry.sector_count = 0
        THEN {Failed}                          \* read_u32 on an empty slice
        ELSE IF entry.sector_index = 0         \* the slice begins in the header
        THEN {Panic, Failed, Present(entry.position, <<"bytes", "unknown">>)}
        ELSE IF cov = {}
        THEN {Failed}                          \* take(0), then read_u8
        ELSE LET k     == LastOf(cov)
                 frame == f.ext[k].frame
                 avail == Min(frame.exact_length - 1,
                              (entry.sector_count * SECTOR_SIZE) - 5)
                 mode  == from_int(frame.payload.mode)
             IN  IF f.ext[k].at # entry.sector_index \/ ~Intact(f, k)
                 THEN {Panic, Failed, Present(entry.position, <<"bytes", "unknown">>)}
                 ELSE IF frame.exact_length = 0
                 THEN {Failed}
                 ELSE IF mode = NoMode
                 THEN {Panic}                  \* expect("Invalid compression type")
                 ELSE LET r == Decompress(mode, frame.payload, avail)
                      IN  IF r.ok THEN {Present(entry.position, r.data)}
                                  ELSE {Failed}

(* get_chunk_from_index: the elements it can yield for a slot, or Panic *)
ChunkOutcomes(f, entry_index) ==
    IF ReadEntryPanics(f, entry_index) THEN {Panic}
    ELSE LET entry == read_entry(f, entry_index)
         IN  IF ~entry.some THEN {Absent}
             ELSE IF SlicePanics(f, entry) THEN {Panic}
             ELSE DecodeOutcomes(f, entry)

---------------------------------------------------------------------------
(* RegionFile: the operations *)

(* Mmap::map(&file) on a file of length 0 fails or yields an empty map,     *)
(* depending on the mapping library; both are modelled.                     *)
OpenResults(f) ==
    IF ~f.exists THEN {"failed"}
    ELSE IF f.len = 0 THEN {"failed", "open"}
    ELSE {"open"}

(* RegionFile::open, followed by stream_chunks (ChunkIterator::create) *)
Open ==
    /\ rstate = "none"
    /\ wstate \in {"none", "closed"}
    /\ \E r \in OpenResults(file) : rstate' = r
    /\ index' = 0
    /\ out' = << >>
    /\ ended' = FALSE
    /\ UNCHANGED <<wvars, evars, xvars>>

(* ChunkIterator::next. A panic in get_chunk_from_index aborts before the   *)
(* cursor advances.                                                         *)
IterNext ==
    /\ rstate = "open"
    /\ ~ended
    /\ IF index >= ENTRY_COUNT
       THEN /\ ended' = TRUE
            /\ UNCHANGED <<rstate, index, out>>
       ELSE \E result \in ChunkOutcomes(file, index) :
              IF result = Panic
              THEN /\ rstate' = "panicked"
                   /\ UNCHANGED <<index, out, ended>>
              ELSE /\ out' = IF result = Absent THEN out
                             ELSE [i \in DOMAIN out \cup {index} |->
                                     IF i = index THEN result ELSE out[i]]
                   /\ index' = index + 1
                   /\ UNCHANGED <<rstate, ended>>
    /\ UNCHANGED <<wvars, evars, xvars>>

---------------------------------------------------------------------------
(* The files found on disk before the program runs *)

Frame(mode, fmt, d, streamLen) ==
    [ exact_length |-> 1 + streamLen,
      payload      |-> [mode |-> mode, fmt |-> fmt, of |-> d, len |-> 1 + streamLen],
      len          |-> 4 + (1 + streamLen) ]

Extent(at, frame) == [at |-> at, n |-> CeilDiv(frame.len, SECTOR_SIZE), frame |-> frame]

(* A file of `sectors` sectors with the given header entries and extents *)
RegionOf(sectors, hdr, ext) ==
    [exists |-> TRUE, len |-> sectors * SECTOR_SIZE, hdr |-> hdr, ext |-> ext]

(* Chunks in the three compression modes, at slots 0, 1 and 40 *)
MixedFile ==
    RegionOf(5,
             (0 :> EntryData(2, 1)) @@ (1 :> EntryData(3, 1)) @@ (40 :> EntryData(4, 1)),
             << Extent(2, Frame(1, "gzip", "hello", 25)),
                Extent(3, Frame(3, "raw", "hello", 5)),
                Extent(4, Frame(2, "zlib", "hello", 13)) >>)

(* Compression byte 9 at slot (0,0); valid chunks at slots 40 and 1023 *)
BadTagFile ==
    RegionOf(5,
             (0 :> EntryData(2, 1)) @@ (40 :> EntryData(3, 1)) @@ (1023 :> EntryData(4, 1)),
             << Extent(2, Frame(9, "zlib", "hello", 13)),
                Extent(3, Frame(2, "zlib", "hello", 13)),
                Extent(4, Frame(2, "zlib", "hello", 13)) >>)

(* The entry of slot 3 describes sectors [3, 8) of a file of 4 sectors;     *)
(* slot 40 holds a valid chunk.                                             *)
PastEndFile ==
    RegionOf(4,
             (3 :> EntryData(3, 5)) @@ (40 :> EntryData(2, 1)),
             << Extent(2, Frame(2, "zlib", "hello", 13)) >>)

(* Files shorter than the header: empty, cut inside the entries, and cut    *)
(* after the 1024 entries but before the end of the second sector.          *)
ShortFile(len) == [exists |-> TRUE, len |-> len, hdr |-> << >>, ext |-> << >>]

InitFiles ==
    { NoFile, ShortFile(0), ShortFile(100), ShortFile(6000),
      MixedFile, BadTagFile, PastEndFile }

---------------------------------------------------------------------------
(* The header entry on its own: write_entry, then read_entry *)

EntrySectorIndices == {2, 3, 255, 256, 65535, 65536, 16777215, 16777216}
EntrySectorCounts == {1, 2, 128, 255, 256, 257}
EntryPositions == {ChunkPos(0, 0), ChunkPos(5, 7), ChunkPos(31, 31)}

NoEntry == [some |-> FALSE]

(* write_entry of RegionEntry { position, sector_index, sector_count } *)
EncodeEntry ==
    /\ epc = "in"
    /\ file' = [file EXCEPT
                  !.hdr = write_entry(@, ein.position, ein.sector_index, ein.sector_count)]
    /\ epc' = "written"
    /\ UNCHANGED <<wstate, used_sectors, capacity, log, called, rvars, ein, eout, xvars>>

(* read_entry of the same slot *)
DecodeEntry ==
    /\ epc = "written"
    /\ ~ReadEntryPanics(file, EntryIndex(ein.position))
    /\ eout' = read_entry(file, EntryIndex(ein.position))
    /\ epc' = "read"
    /\ UNCHANGED <<wvars, rvars, ein, xvars>>

---------------------------------------------------------------------------
(* unpack: the values *)

(* LruCache::new(NonZeroUsize::new(8)) *)
CACHE_CAPACITY == 8

(* std::sync::mpsc::sync_channel(4) *)
CHANNEL_BOUND == 4

ChunkEntry(region, chunk, data) == [region |-> region, chunk |-> chunk, data |-> data]

NoChunkEntry == ChunkEntry(ChunkPos(0, 0), ChunkPos(0, 0), "")

(* A writer as unpack holds it: Arc<Mutex<RegionFileWriter>>. `refs` is the *)
(* strong count of the Arc, `open` is false once Drop has run, `drops`      *)
(* counts the runs of Drop.                                                 *)
NewWriter(region) ==
    [region |-> region, open |-> TRUE, refs |-> 1, drops |-> 0,
     used_sectors |-> 2, capacity |-> INITIAL_CAPACITY]

(* As Released, had the dropped clone not been the last owner's concern:    *)
(* the count falls and Drop never runs.                                     *)
Released_Leaked(ws, id) ==
    [ws EXCEPT ![id].refs = @ - 1]

(* One clone of the Arc of writer id is dropped; the last one runs Drop.    *)
Released(ws, id) ==
    [ws EXCEPT ![id] = [@ EXCEPT !.refs  = @ - 1,
                                 !.open  = IF ws[id].refs = 1 THEN FALSE ELSE @,
                                 !.drops = IF ws[id].refs = 1 THEN @ + 1 ELSE @]]

RECURSIVE ReleasedAll(_, _)
(* The cache is dropped: every clone it holds is dropped, in order. *)
ReleasedAll(ws, cache) ==
    IF cache = << >> THEN ws
    ELSE ReleasedAll(Released(ws, Head(cache).writer), Tail(cache))

(* The place of a key in the cache, 0 when it is not there *)
CachePlace(cache, key) ==
    IF \E k \in 1..Len(cache) : cache[k].key = key
    THEN CHOOSE k \in 1..Len(cache) : cache[k].key = key
    ELSE 0

(* As CacheGet, had the lookup been LruCache::peek: the order stays. *)
CacheGet_Peek(cache, key) == cache

(* LruCache::get on a hit: the entry becomes the most recently used. *)
CacheGet(cache, key) ==
    LET k == CachePlace(cache, key)
    IN  <<cache[k]>> \o SubSeq(cache, 1, k - 1) \o SubSeq(cache, k + 1, Len(cache))

(* LruCache::put of a key that is not cached: the entries that stay, after  *)
(* the least recently used one is evicted from a full cache.                *)
CacheKept(cache) ==
    IF Len(cache) >= CACHE_CAPACITY THEN SubSeq(cache, 1, CACHE_CAPACITY - 1) ELSE cache

(* The entries LruCache::put evicts *)
CacheEvicted(cache) ==
    IF Len(cache) >= CACHE_CAPACITY THEN SubSeq(cache, CACHE_CAPACITY, Len(cache)) ELSE << >>

(* The file of a region, NoFile when the output directory has none *)
FileOf(fs, region) == IF region \in DOMAIN fs THEN fs[region] ELSE NoFile

WithFile(fs, region, f) ==
    [r \in DOMAIN fs \cup {region} |-> IF r = region THEN f ELSE fs[r]]

(* The producer still owns `sender`: it is dropped when the function        *)
(* returns or unwinds, not before the join.                                 *)
SenderAlive == ppc \in {"loop", "join"}

(* The consumer thread has ended and `receiver` is dropped. *)
ReceiverGone == cpc \in {"done", "failed", "panicked"}

(* The guard of the cache mutex lives in the block that computes            *)
(* region_writer: whether it is still held once the block has ended.        *)
(* As CacheGuardAfterBlock, had the guard been bound in the function body.  *)
CacheGuardAfterBlock_Held == TRUE

CacheGuardAfterBlock == FALSE

---------------------------------------------------------------------------
(* unpack: the producer, the for loop of unpack_files_with_reader *)

(* sender.send(ChunkEntry { .. }) with room in the channel *)
Send ==
    /\ ppc = "loop"
    /\ sent < Len(archive)
    /\ ~ReceiverGone
    /\ Len(chan) < CHANNEL_BOUND
    /\ chan' = Append(chan, archive[sent + 1])
    /\ sent' = sent + 1
    /\ UNCHANGED <<archive, ppc, cpc, chunk_entry, taken, region_cache, cache_lock,
                   writers, files, region_writer, writer_lock, nonunpack>>

(* sender.send(..).unwrap() after the receiver is gone: the send fails and  *)
(* the unwrap panics.                                                       *)
SendPanics ==
    /\ ppc = "loop"
    /\ sent < Len(archive)
    /\ ReceiverGone
    /\ ppc' = "panicked"
    /\ UNCHANGED <<archive, sent, chan, cpc, chunk_entry, taken, region_cache, cache_lock,
                   writers, files, region_writer, writer_lock, nonunpack>>

(* `entry?` or `entry.read_to_end(&mut data)?` fails: the function returns  *)
(* the error without joining; the sender is dropped.                        *)
ReadFails ==
    /\ ppc = "loop"
    /\ sent < Len(archive)
    /\ ppc' = "failed"
    /\ UNCHANGED <<archive, sent, chan, cpc, chunk_entry, taken, region_cache, cache_lock,
                   writers, files, region_writer, writer_lock, nonunpack>>

(* The archive has no further entry: the loop ends with `sender` in scope. *)
EndLoop ==
    /\ ppc = "loop"
    /\ sent = Len(archive)
    /\ ppc' = "join"
    /\ UNCHANGED <<archive, sent, chan, cpc, chunk_entry, taken, region_cache, cache_lock,
                   writers, files, region_writer, writer_lock, nonunpack>>

(* receive_thread.join().unwrap()?: returns once the thread has ended *)
Join ==
    /\ ppc = "join"
    /\ ReceiverGone
    /\ ppc' = CASE cpc = "done"     -> "returned"
                [] cpc = "failed"   -> "failed"
                [] cpc = "panicked" -> "panicked"
    /\ UNCHANGED <<archive, sent, chan, cpc, chunk_entry, taken, region_cache, cache_lock,
                   writers, files, region_writer, writer_lock, nonunpack>>

---------------------------------------------------------------------------
(* unpack: the consumer, receiver.iter().try_for_each(unpack_file) *)

(* receiver.iter() yields the next entry *)
Recv ==
    /\ cpc = "recv"
    /\ chan # << >>
    /\ chunk_entry' = Head(chan)
    /\ chan' = Tail(chan)
    /\ taken' = taken + 1
    /\ cpc' = "lock"
    /\ UNCHANGED <<archive, sent, ppc, region_cache, cache_lock,
                   writers, files, region_writer, writer_lock, nonunpack>>

(* receiver.iter() ends: the channel is empty and the sender is dropped.    *)
(* The thread returns Ok and its closure, which owns the cache, is dropped. *)
RecvEnds ==
    /\ cpc = "recv"
    /\ chan = << >>
    /\ ~SenderAlive
    /\ cpc' = "done"
    /\ writers' = ReleasedAll(writers, region_cache)
    /\ region_cache' = << >>
    /\ UNCHANGED <<archive, sent, chan, ppc, chunk_entry, taken, cache_lock,
                   files, region_writer, writer_lock, nonunpack>>

(* region_cache.lock().unwrap() *)
LockCache ==
    /\ cpc = "lock"
    /\ ~cache_lock
    /\ cache_lock' = TRUE
    /\ cpc' = "lookup"
    /\ UNCHANGED <<archive, sent, chan, ppc, chunk_entry, taken, region_cache,
                   writers, files, region_writer, writer_lock, nonunpack>>

(* region_cache.get(&entry.region) is Some(r): r.clone() *)
GetHit ==
    /\ cpc = "lookup"
    /\ CachePlace(region_cache, chunk_entry.region) # 0
    /\ LET id == region_cache[CachePlace(region_cache, chunk_entry.region)].writer
       IN  /\ region_writer' = id
           /\ writers' = [writers EXCEPT ![id].refs = @ + 1]
    /\ region_cache' = CacheGet(region_cache, chunk_entry.region)
    /\ cpc' = "unlock"
    /\ UNCHANGED <<archive, sent, chan, ppc, chunk_entry, taken, cache_lock,
                   files, writer_lock, nonunpack>>

(* The consumer thread ends with an error: unpack_file's locals and the     *)
(* closure that owns the cache are dropped, and so is the receiver.         *)
ThreadEnded(ws, how) ==
    /\ cpc' = how
    /\ cache_lock' = FALSE
    /\ writer_lock' = 0
    /\ region_writer' = 0
    /\ region_cache' = << >>
    /\ writers' = ReleasedAll(IF region_writer = 0 THEN ws ELSE Released(ws, region_writer),
                              region_cache)

(* region_cache.get is None: RegionFileWriter::create(&region_path)?, which *)
(* truncates the file of the region, or fails.                              *)
CreateWriter ==
    /\ cpc = "lookup"
    /\ CachePlace(region_cache, chunk_entry.region) = 0
    /\ \/ /\ writers' = Append(writers, NewWriter(chunk_entry.region))
          /\ region_writer' = Len(writers) + 1
          /\ files' = WithFile(files, chunk_entry.region,
                               TruncatedFile(FileOf(files, chunk_entry.region), INITIAL_CAPACITY))
          /\ cpc' = "put"
          /\ UNCHANGED <<region_cache, cache_lock, writer_lock>>
       \/ /\ ThreadEnded(writers, "failed")
          /\ UNCHANGED files
    /\ UNCHANGED <<archive, sent, chan, ppc, chunk_entry, taken, nonunpack>>

(* region_cache.put(entry.region, writer.clone()): the least recently used  *)
(* entry of a full cache is evicted and its Arc dropped.                    *)
Put ==
    /\ cpc = "put"
    /\ region_cache' = <<[key |-> chunk_entry.region, writer |-> region_writer]>>
                          \o CacheKept(region_cache)
    /\ writers' = ReleasedAll([writers EXCEPT ![region_writer].refs = @ + 1],
                              CacheEvicted(region_cache))
    /\ cpc' = "unlock"
    /\ UNCHANGED <<archive, sent, chan, ppc, chunk_entry, taken, cache_lock,
                   files, region_writer, writer_lock, nonunpack>>

(* The block that computes region_writer ends: the cache guard is dropped. *)
UnlockCache ==
    /\ cpc = "unlock"
    /\ cache_lock' = CacheGuardAfterBlock
    /\ cpc' = "wlock"
    /\ UNCHANGED <<archive, sent, chan, ppc, chunk_entry, taken, region_cache,
                   writers, files, region_writer, writer_lock, nonunpack>>

(* region_writer.lock().unwrap() *)
LockWriter ==
    /\ cpc = "wlock"
    /\ writer_lock = 0
    /\ writer_lock' = region_writer
    /\ cpc' = "add"
    /\ UNCHANGED <<archive, sent, chan, ppc, chunk_entry, taken, region_cache, cache_lock,
                   writers, files, region_writer, nonunpack>>

(* .add_chunk(&Chunk { position: entry.chunk, data: entry.data })?; then    *)
(* the writer guard and region_writer are dropped. The call returns Ok,     *)
(* returns an I/O error, or panics in write_entry.                          *)
UnpackAddChunk ==
    /\ cpc = "add"
    /\ LET w            == writers[region_writer]
           f            == FileOf(files, w.region)
           data         == create_chunk_data_stream(chunk_entry.data)
           sector_count == SectorCount(data)
           sector_index == w.used_sectors
           written      == write_data(f, w.capacity, sector_index, sector_count, data)
           grown        == [writers EXCEPT ![region_writer].capacity =
                              GrownCapacity(w.capacity, sector_index, sector_count)]
       IN  \/ /\ ~WriteEntryPanics(chunk_entry.chunk)
              /\ files' = WithFile(files, w.region,
                            [written EXCEPT !.hdr = write_entry(@, chunk_entry.chunk,
                                                                sector_index, sector_count)])
              /\ writers' = Released([grown EXCEPT ![region_writer].used_sectors =
                                                      @ + sector_count],
                                     region_writer)
              /\ writer_lock' = 0
              /\ region_writer' = 0
              /\ cpc' = "recv"
              /\ UNCHANGED <<region_cache, cache_lock>>
           \/ /\ WriteEntryPanics(chunk_entry.chunk)
              /\ files' = WithFile(files, w.region, written)
              /\ ThreadEnded(grown, "panicked")
           \/ /\ UNCHANGED files
              /\ ThreadEnded(writers, "failed")
    /\ UNCHANGED <<archive, sent, chan, ppc, chunk_entry, taken, nonunpack>>

---------------------------------------------------------------------------
(* Specifications *)

(* The parts of the state an operation that is not run leaves at rest *)
UnpackOff ==
    /\ archive = << >>
    /\ sent = 0
    /\ chan = << >>
    /\ ppc = "off"
    /\ cpc = "off"
    /\ chunk_entry = NoChunkEntry
    /\ taken = 0
    /\ region_cache = << >>
    /\ cache_lock = FALSE
    /\ writers = << >>
    /\ files = << >>
    /\ region_writer = 0
    /\ writer_lock = 0

StripOff ==
    /\ nbt = NoChunk
    /\ stripped = NoChunk
    /\ restripped = NoChunk
    /\ spc = "off"
    /\ variant = "none"

WriterOff ==
    /\ file = NoFile
    /\ wstate = "none"
    /\ used_sectors = 0
    /\ capacity = 0
    /\ log = << >>
    /\ called = NoCall

ReaderOff ==
    /\ rstate = "none"
    /\ index = 0
    /\ out = << >>
    /\ ended = FALSE

EntryOff ==
    /\ epc = "off"
    /\ ein = NoEntry
    /\ eout = NoEntry

Init ==
    /\ UnpackOff
    /\ StripOff
    /\ faults = << >>
    /\ pair = << >>
    /\ pack = << >>
    /\ file \in InitFiles
    /\ wstate = "none"
    /\ used_sectors = 0
    /\ capacity = 0
    /\ log = << >>
    /\ called = NoCall
    /\ rstate = "none"
    /\ index = 0
    /\ out = << >>
    /\ ended = FALSE
    /\ epc = "off"
    /\ ein = NoEntry
    /\ eout = NoEntry

Next ==
    \/ Create
    \/ \E pos \in Positions, d \in Payloads : AddChunk(pos, d)
    \/ Drop
    \/ Open
    \/ IterNext

(* A writer and then a reader over one path *)
Spec == Init /\ [][Next]_vars

InitEntry ==
    /\ UnpackOff
    /\ StripOff
    /\ faults = << >>
    /\ pair = << >>
    /\ pack = << >>
    /\ file = TruncatedFile(NoFile, INITIAL_CAPACITY)
    /\ wstate = "open"
    /\ used_sectors = 2
    /\ capacity = INITIAL_CAPACITY
    /\ log = << >>
    /\ called = NoCall
    /\ rstate = "none"
    /\ index = 0
    /\ out = << >>
    /\ ended = FALSE
    /\ epc = "in"
    /\ ein \in [position     : EntryPositions,
                sector_index : EntrySectorIndices,
                sector_count : EntrySectorCounts]
    /\ eout = NoEntry

NextEntry == EncodeEntry \/ DecodeEntry

(* One header entry written and read back *)
SpecEntry == InitEntry /\ [][NextEntry]_vars

(* The positions of the calls that fail *)
FaultPositions == {ChunkPos(5, 7), ChunkPos(-1, 0)}

(* The payloads of the calls: of one sector and of three *)
FaultPayloads == {"hello", "rand10k"}

InitFault ==
    /\ UnpackOff /\ StripOff /\ ReaderOff /\ EntryOff
    /\ faults = << >>
    /\ pair = << >>
    /\ pack = << >>
    /\ file \in {NoFile, MixedFile}
    /\ wstate = "none"
    /\ used_sectors = 0
    /\ capacity = 0
    /\ log = << >>
    /\ called = NoCall

NextFault ==
    \/ Create
    \/ \E pos \in FaultPositions, d \in FaultPayloads : AddChunk(pos, d)
    \/ \E pos \in FaultPositions, d \in FaultPayloads, fault \in Faults :
          AddChunkFails(pos, d, fault)
    \/ Drop

(* One writer whose add_chunk calls may fail *)
SpecFault == InitFault /\ [][NextFault]_vars

(* The chunks handed to the two writers *)
PairPositions == {ChunkPos(0, 0), ChunkPos(5, 7), ChunkPos(-1, 0)}

PairPayloads == {"hello", "rand10k"}

InitPair ==
    /\ UnpackOff /\ StripOff /\ WriterOff /\ ReaderOff /\ EntryOff
    /\ faults = << >>
    /\ pair \in [Threads -> {NoWriter(NoFile), NoWriter(MixedFile)}]
    /\ pack = << >>

NextPair ==
    \E t \in Threads :
        \/ PairCreate(t)
        \/ \E pos \in PairPositions, d \in PairPayloads : PairWriteData(t, pos, d)
        \/ PairWriteEntry(t)
        \/ PairDrop(t)

(* Two writers at distinct paths driven by two threads *)
SpecPair == InitPair /\ [][NextPair]_vars

(* The chunks handed to strip_chunk: a root compound with any choice of    *)
(* the children of Pool, roots whose `sections` is no list of compounds,    *)
(* a root that is no compound, and bytes that are no tag tree.              *)
LightArray == Tag("ByteArray", "16 bytes")

Section0 ==
    CompoundOf(<< <<"Y", Tag("Byte", "0")>>,
                  <<"SkyLight", LightArray>> >>)

Section1 ==
    CompoundOf(<< <<"BlockLight", LightArray>>,
                  <<"block_states", CompoundOf(<< >>)>> >>)

LevelCompound ==
    CompoundOf(<< <<"Heightmaps", Tag("LongArray", "37 longs")>>,
                  <<"isLightOn", Tag("Byte", "1")>>,
                  <<"sections", ListOf(<<Section0>>)>> >>)

Pool ==
    << <<"InhabitedTime", Tag("Long", "42")>>,
       <<"Heightmaps", CompoundOf(<< <<"MOTION_BLOCKING", Tag("LongArray", "37 longs")>> >>)>>,
       <<"isLightOn", Tag("Byte", "1")>>,
       <<"sections", ListOf(<<Section0, Section1>>)>>,
       <<"Level", LevelCompound>>,
       <<"structures", CompoundOf(<< <<"Heightmaps", Tag("Int", "7")>> >>)>> >>

PoolNames == {Pool[i][1] : i \in DOMAIN Pool}

RootOf(names) ==
    LET Chosen(kid) == kid[1] \in names
    IN  CompoundOf(SelectSeq(Pool, Chosen))

Roots ==
    {RootOf(names) : names \in SUBSET PoolNames}
        \cup { CompoundOf(<< <<"sections", Tag("Int", "3")>>,
                             <<"Heightmaps", Tag("Int", "0")>> >>),
               CompoundOf(<< <<"sections", ListOf(<<Tag("Int", "1"), Tag("Int", "2")>>)>>,
                             <<"SkyLight", LightArray>> >>),
               CompoundOf(<< <<"Level", Tag("Int", "0")>> >>),
               ListOf(<<Section0>>),
               Invalid }

InitStrip ==
    /\ UnpackOff /\ WriterOff /\ ReaderOff /\ EntryOff
    /\ faults = << >>
    /\ pair = << >>
    /\ pack = << >>
    /\ nbt \in [position : {ChunkPos(0, 0), ChunkPos(5, 7)}, data : Roots]
    /\ stripped = NoChunk
    /\ restripped = NoChunk
    /\ spc = "in"
    /\ variant = "none"

NextStrip == StripChunk \/ MainStripChunk \/ StripAgain

(* One call of strip_chunk, of commands/strip.rs or of main.rs, and a       *)
(* second call of the former on what it returned                            *)
SpecStrip == InitStrip /\ [][NextStrip]_vars

(* The archives handed to unpack: every archive of at most MaxEntries       *)
(* entries over two regions and two slots, and three longer ones. Sweep     *)
(* names one region more than the cache holds and then the first again;     *)
(* Touch returns to the first region before the cache overflows; BadChunk   *)
(* names a chunk outside its region.                                        *)
Region(k) == ChunkPos(k, 0)

SmallEntries ==
    { ChunkEntry(Region(0), ChunkPos(0, 0), "hello"),
      ChunkEntry(Region(0), ChunkPos(0, 0), "rand10k"),
      ChunkEntry(Region(0), ChunkPos(1, 0), "hello"),
      ChunkEntry(Region(1), ChunkPos(0, 0), "hello"),
      ChunkEntry(Region(1), ChunkPos(0, 0), "rand10k") }

SmallArchives == UNION { [1..n -> SmallEntries] : n \in 0..MaxEntries }

Sweep ==
    [k \in 1..(CACHE_CAPACITY + 1) |-> ChunkEntry(Region(k - 1), ChunkPos(0, 0), "hello")]
        \o << ChunkEntry(Region(0), ChunkPos(5, 7), "rand10k") >>

Touch ==
    [k \in 1..CACHE_CAPACITY |-> ChunkEntry(Region(k - 1), ChunkPos(0, 0), "hello")]
        \o << ChunkEntry(Region(0), ChunkPos(1, 0), "hello"),
              ChunkEntry(Region(CACHE_CAPACITY), ChunkPos(0, 0), "hello"),
              ChunkEntry(Region(1), ChunkPos(1, 0), "hello") >>

BadChunk ==
    << ChunkEntry(Region(0), ChunkPos(0, 0), "hello"),
       ChunkEntry(Region(0), ChunkPos(-1, 0), "hello") >>

Archives == SmallArchives \cup {Sweep, Touch, BadChunk}

(* unpack_files_with_reader before its loop: the channel and the cache are  *)
(* made and the consumer thread is spawned, over an empty output directory. *)
InitUnpack ==
    /\ WriterOff /\ ReaderOff /\ EntryOff /\ StripOff
    /\ faults = << >>
    /\ pair = << >>
    /\ pack = << >>
    /\ archive \in Archives
    /\ sent = 0
    /\ chan = << >>
    /\ ppc = "loop"
    /\ cpc = "recv"
    /\ chunk_entry = NoChunkEntry
    /\ taken = 0
    /\ region_cache = << >>
    /\ cache_lock = FALSE
    /\ writers = << >>
    /\ files = << >>
    /\ region_writer = 0
    /\ writer_lock = 0

NextUnpack ==
    \/ Send
    \/ SendPanics
    \/ ReadFails
    \/ EndLoop
    \/ Join
    \/ Recv
    \/ RecvEnds
    \/ LockCache
    \/ GetHit
    \/ CreateWriter
    \/ Put
    \/ UnlockCache
    \/ LockWriter
    \/ UnpackAddChunk

(* unpack: the producer loop and the consumer thread *)
SpecUnpack == InitUnpack /\ [][NextUnpack]_vars

---------------------------------------------------------------------------
(* Vocabulary of the properties *)

Slots == 0..(ENTRY_COUNT - 1)

(* The slot of a position inside the region: index = z*32 + x *)
SlotOf(pos) == (pos.z * 32) + pos.x

SlotPosition(i) == ChunkPos(i % 32, i \div 32)

(* The add_chunk calls made so far all had positions inside the region,     *)
(* pairwise distinct.                                                       *)
DistinctInRegion ==
    /\ \A k \in 1..Len(log) : InRegion(log[k].position)
    /\ \A j, k \in 1..Len(log) : log[j].position = log[k].position => j = k

(* The calls of the log that wrote the slot of entry_index *)
WritesOf(entry_index) == {k \in 1..Len(log) : EntryIndex(log[k].position) = entry_index}

RECURSIVE SectorsBefore(_)
(* The sectors reserved by the first k - 1 calls of the log *)
SectorsBefore(k) == IF k <= 1 THEN 0 ELSE SectorsBefore(k - 1) + log[k - 1].sector_count

(* The reader is running over the file, or has been aborted by a panic. *)
Reading == rstate \in {"open", "panicked"}

---------------------------------------------------------------------------
(* C1: write-then-read identity. When chunks with pairwise distinct         *)
(* positions inside the region were added to a writer and the writer was    *)
(* closed, a reader of the file never aborts, and every slot it has passed  *)
(* yielded the chunk added for it, with the same position and data, or      *)
(* `absent` when no chunk was added for it.                                 *)
C1_WriteThenRead ==
    (wstate = "closed" /\ DistinctInRegion /\ rstate # "none") =>
        /\ rstate = "open"
        /\ \A i \in DOMAIN out : i < index /\ WritesOf(i) # {}
        /\ \A k \in 1..Len(log) :
             LET i == SlotOf(log[k].position)
             IN  i < index =>
                   /\ i \in DOMAIN out
                   /\ out[i] = Present(log[k].position, log[k].data)

(* C2: sector alignment. After create and any number of add_chunk calls     *)
(* that returned Ok, the file length is a multiple of 4096 and equals       *)
(* used_sectors * 4096.                                                     *)
C2_SectorAlignment ==
    wstate \in {"open", "closed"} =>
        /\ file.len % SECTOR_SIZE = 0
        /\ file.len = used_sectors * SECTOR_SIZE

(* Two calls returned Ok, one of them reserving several sectors. *)
C2_Witness ==
    /\ wstate = "open"
    /\ Len(log) >= 2
    /\ \E k \in 1..Len(log) : log[k].sector_count > 1
    /\ file.len = used_sectors * SECTOR_SIZE

(* C3: double-write. When a slot of the region was written more than once,  *)
(* by calls with positions inside the region, every call                    *)
(* was placed at the used_sectors of its time (after all sectors reserved   *)
(* before it), and the header entry of the slot points to the sector range  *)
(* of the most recent call for that slot.                                   *)
C3_DoubleWrite ==
    wstate \in {"open", "closed"} =>
        \A k \in 1..Len(log) :
            LET i     == EntryIndex(log[k].position)
                entry == read_entry(file, i)
            IN  (InRegion(log[k].position) /\ Cardinality(WritesOf(i)) > 1) =>
                  /\ log[k].sector_index = 2 + SectorsBefore(k)
                  /\ (k = LastOf(WritesOf(i)) =>
                        /\ entry.some
                        /\ entry.sector_index = log[k].sector_index
                        /\ entry.sector_count = log[k].sector_count)

(* C4: absent-slot fidelity. A file made by create with no add_chunk has    *)
(* 8192 bytes, used_sectors = 2 and a header of zero entries, and a reader  *)
(* of it yields `absent` for each of the 1024 slots and then ends.          *)
C4_FreshFileAllAbsent ==
    (wstate \in {"open", "closed"} /\ log = << >>) =>
        /\ file.len = 8192
        /\ used_sectors = 2
        /\ \A i \in Slots : ~ReadEntryPanics(file, i) /\ ~read_entry(file, i).some
        /\ rstate \in {"none", "open"}
        /\ out = << >>
        /\ (ended => index = 1024)

(* A reader has gone through all the slots of a file made by create alone. *)
C4_Witness ==
    /\ wstate = "closed"
    /\ log = << >>
    /\ rstate = "open"
    /\ ended
    /\ index = 1024
    /\ out = << >>

(* C5: header round-trip. An entry with sector_index in [2, 2^24) and      *)
(* sector_count in [1, 2^8), written by write_entry, is read back by        *)
(* read_entry as a present entry with the same sector_index and             *)
(* sector_count.                                                            *)
C5_HeaderRoundTrip ==
    (/\ epc = "read"
     /\ ein.sector_index >= 2 /\ ein.sector_index < 16777216
     /\ ein.sector_count >= 1 /\ ein.sector_count < 256) =>
        /\ eout.some
        /\ eout.sector_index = ein.sector_index
        /\ eout.sector_count = ein.sector_count
        /\ eout.position = ein.position

(* The largest entry of the range has been written and read back. *)
C5_Witness ==
    /\ epc = "read"
    /\ ein.sector_index = 16777215
    /\ ein.sector_count = 255
    /\ eout.some
    /\ eout.sector_index = 16777215

(* C6: the chunk stream has 1024 elements. Over any opened file (of one     *)
(* byte or more) the iterator is never aborted, yields one element for      *)
(* each of the slots 0..1023 in that order and then ends, and a chunk       *)
(* yielded for slot i has position (i mod 32, i / 32).                      *)
C6_StreamOf1024 ==
    (Reading /\ file.len > 0) =>
        /\ rstate = "open"
        /\ index <= 1024
        /\ (ended => index = 1024)
        /\ \A i \in DOMAIN out :
             /\ i < index
             /\ (out[i].kind = "chunk" => out[i].position = SlotPosition(i))

(* The entry of slot i is in range and names a sector range inside the file *)
(* that begins with a whole framed stream.                                  *)
Populated(f, i) ==
    /\ ~ReadEntryPanics(f, i)
    /\ read_entry(f, i).some
    /\ ~SlicePanics(f, read_entry(f, i))
    /\ read_entry(f, i).sector_count > 0
    /\ LET cov == Covering(f, read_entry(f, i).sector_index)
       IN  /\ cov # {}
           /\ f.ext[LastOf(cov)].at = read_entry(f, i).sector_index
           /\ Intact(f, LastOf(cov))

(* The compression byte of the stream of a populated slot *)
TagOf(f, i) ==
    f.ext[LastOf(Covering(f, read_entry(f, i).sector_index))].frame.payload.mode

(* C7: per-slot error isolation. When the stream of a populated slot has a  *)
(* compression byte other than 1, 2 and 3, the iterator is not aborted at   *)
(* that slot, the element of the slot is an error, and every later          *)
(* populated slot with a valid byte yields its chunk.                       *)
C7_BadTagIsolated ==
    Reading =>
        \A i \in DOMAIN file.hdr :
            (Populated(file, i) /\ TagOf(file, i) \notin {1, 2, 3}) =>
                /\ ~(rstate = "panicked" /\ index = i)
                /\ (index > i => (i \in DOMAIN out /\ out[i] = Failed))
                /\ \A j \in DOMAIN file.hdr :
                     (j > i /\ index > j /\ Populated(file, j)
                        /\ TagOf(file, j) \in {1, 2, 3}) =>
                          (j \in DOMAIN out /\ out[j].kind = "chunk")

(* C8: a sector range past the end of the file. When a non-zero entry       *)
(* describes a range that ends after the end of the map, the iterator is    *)
(* not aborted at that slot, the element of the slot is an error, and the   *)
(* iterator goes on to the later slots.                                     *)
C8_PastEndIsError ==
    Reading =>
        \A i \in DOMAIN file.hdr :
            (/\ ~ReadEntryPanics(file, i)
             /\ read_entry(file, i).some
             /\ SlicePanics(file, read_entry(file, i))) =>
                /\ ~(rstate = "panicked" /\ index = i)
                /\ (index > i => (i \in DOMAIN out /\ out[i] = Failed))

(* C9: a file shorter than the header. Once such a file (of 1 to 8191       *)
(* bytes) is open, the iterator is never aborted and yields no chunk.       *)
C9_ShortFileAllAbsent ==
    (/\ wstate = "none"
     /\ file.exists
     /\ file.len > 0
     /\ file.len < 8192
     /\ Reading) =>
        /\ rstate = "open"
        /\ out = << >>

(* C10: any position. add_chunk never panics, whatever the position, and    *)
(* the entry of every call is written at a slot index inside [0, 1024).     *)
C10_AnyPositionNoPanic ==
    /\ ~(wstate = "panicked" /\ called.position \in Positions)
    /\ \A k \in 1..Len(log) :
         /\ EntryIndex(log[k].position) \in Slots
         /\ read_entry(file, EntryIndex(log[k].position)).some

---------------------------------------------------------------------------
(* unpack: vocabulary of the properties *)

(* Every entry of the archive has been sent, received and written, and no   *)
(* step of either thread has failed.                                        *)
Processed ==
    /\ ppc \in {"loop", "join", "returned"}
    /\ cpc \in {"recv", "done"}
    /\ sent = Len(archive)
    /\ taken = Len(archive)

(* The last archive entry for a slot of a region *)
LastFor(region, slot) ==
    LastOf({k \in 1..Len(archive) :
              archive[k].region = region /\ EntryIndex(archive[k].chunk) = slot})

(* The last entry before the current one that named the region (0: none) *)
LastUse(region) ==
    LET uses == {k \in 1..(taken - 1) : archive[k].region = region}
    IN  IF uses = {} THEN 0 ELSE LastOf(uses)

OpenWriters == {id \in 1..Len(writers) : writers[id].open}

(* Neither thread has met an error or panicked. *)
NoError ==
    /\ ppc \notin {"failed", "panicked"}
    /\ cpc \notin {"failed", "panicked"}

(* C11: unpack reconstructs every chunk. Once every entry of an archive     *)
(* (all chunks inside their regions) has been processed without error, the  *)
(* file of each region holds, for every slot the archive named in that      *)
(* region, a present entry that reads back as the data of the last archive  *)
(* entry for that slot -- also when the writer of the region was evicted    *)
(* from the cache and the region came again.                                *)
C11_UnpackReconstructs ==
    (/\ Processed
     /\ \A k \in 1..Len(archive) : InRegion(archive[k].chunk)) =>
        \A k \in 1..Len(archive) :
            LET region == archive[k].region
                slot   == EntryIndex(archive[k].chunk)
                last   == archive[LastFor(region, slot)]
            IN  ChunkOutcomes(FileOf(files, region), slot)
                    = {Present(SlotPosition(slot), last.data)}

(* C12: unpack terminates. While no step has failed, unpack is never stuck  *)
(* before unpack_files_with_reader has returned: some step of the producer  *)
(* or of the consumer thread can be taken.                                  *)
C12_UnpackTerminates ==
    NoError => (ppc = "returned" \/ ENABLED NextUnpack)

(* C13 as stated: the writers that are open never number more than 8. *)
C13_AtMostEightOpen ==
    Cardinality(OpenWriters) <= CACHE_CAPACITY

(* C13, amended: the cache never holds more than 8 writers; the open        *)
(* writers never number more than 9, and more than 8 only between the       *)
(* creation of a writer and its insertion into the cache; the insertion     *)
(* into a full cache evicts the least recently used writer and closes it,   *)
(* once, leaving the others open.                                           *)
C13_CacheBoundsOpenWriters ==
    /\ [](/\ Len(region_cache) <= CACHE_CAPACITY
          /\ Cardinality(OpenWriters) <= CACHE_CAPACITY + 1
          /\ (cpc # "put" => Cardinality(OpenWriters) <= CACHE_CAPACITY))
    /\ [][(cpc = "put" /\ cpc' = "unlock" /\ Len(region_cache) = CACHE_CAPACITY) =>
            LET evicted == region_cache[CACHE_CAPACITY]
            IN  /\ \A k \in 1..CACHE_CAPACITY :
                      LastUse(evicted.key) <= LastUse(region_cache[k].key)
                /\ writers[evicted.writer].open
                /\ ~writers'[evicted.writer].open
                /\ writers'[evicted.writer].drops = 1
                /\ \A k \in 1..(CACHE_CAPACITY - 1) :
                      /\ writers'[region_cache[k].writer].open
                      /\ region_cache'[k + 1] = region_cache[k]
                /\ Len(region_cache') = CACHE_CAPACITY]_vars

(* A region came while the cache was full of other regions, of which one    *)
(* had been used again since it was cached: its writer is cached, and the   *)
(* writer that was evicted for it is closed.                                *)
C13_Witness ==
    /\ archive = Touch
    /\ cpc = "unlock"
    /\ taken = CACHE_CAPACITY + 2
    /\ Len(region_cache) = CACHE_CAPACITY
    /\ Cardinality(OpenWriters) = CACHE_CAPACITY
    /\ \E id \in 1..Len(writers) : ~writers[id].open /\ writers[id].region = Region(1)

(* C14: no two writers that are open target the file of the same region. *)
C14_OneWriterPerPath ==
    \A a, b \in OpenWriters :
        writers[a].region = writers[b].region => a = b

(* A region has a second writer, open, after its first one was closed. *)
C14_Witness ==
    \E a, b \in 1..Len(writers) :
        /\ a < b
        /\ writers[a].region = writers[b].region
        /\ ~writers[a].open
        /\ writers[b].open

(* C15: every writer is closed. When no step of unpack can be taken any     *)
(* more, every writer that was created has been closed, exactly once.       *)
C15_EveryWriterClosed ==
    (~ENABLED NextUnpack) =>
        \A id \in 1..Len(writers) :
            /\ ~writers[id].open
            /\ writers[id].drops = 1

(* C18: separate critical sections. The cache mutex is not held while the   *)
(* mutex of a writer is held or add_chunk is running, and no writer mutex   *)
(* is held while the cache mutex is taken or held.                          *)
C18_SeparateCriticalSections ==
    /\ (writer_lock # 0 \/ cpc = "add") => ~cache_lock
    /\ (cache_lock \/ cpc = "lock") => writer_lock = 0

(* add_chunk is about to run on a writer that was looked up in the cache. *)
C18_Witness ==
    /\ cpc = "add"
    /\ writer_lock = region_writer
    /\ writer_lock # 0
    /\ CachePlace(region_cache, chunk_entry.region) # 0
    /\ taken >= 2

---------------------------------------------------------------------------
(* C16: a failed add_chunk. A call that returns an I/O error (at set_len,   *)
(* seek or write) leaves used_sectors, every header entry and the record of *)
(* the calls that succeeded as they were, and leaves the writer open; an    *)
(* open writer that has seen a failure can be closed.                       *)
C16_FailedAddChunkLeavesWriter ==
    /\ [][(faults' # faults) =>
            /\ used_sectors' = used_sectors
            /\ file'.hdr = file.hdr
            /\ file'.ext = file.ext
            /\ log' = log
            /\ wstate' = "open"]_vars
    /\ []((faults # << >> /\ wstate = "open") => ENABLED Drop)

(* A call failed after the file had grown, a later call succeeded at the    *)
(* sectors the failed one would have taken, and the writer was closed.      *)
C16_Witness ==
    /\ wstate = "closed"
    /\ \E k \in 1..Len(faults) :
          /\ faults[k].fault = "write"
          /\ faults[k].at < Len(log)
          /\ log[faults[k].at + 1].sector_index = 2 + SectorsBefore(faults[k].at + 1)
          /\ read_entry(file, EntryIndex(log[faults[k].at + 1].position)).some

---------------------------------------------------------------------------
(* What a thread's writer has made of its file *)
PairResult(t) ==
    [file |-> pair[t].file, wstate |-> pair[t].wstate,
     used_sectors |-> pair[t].used_sectors, capacity |-> pair[t].capacity]

(* C17: writer independence. Whatever the other thread has done, a writer   *)
(* that is between calls, or closed, has the file, the used_sectors and the *)
(* capacity that its own sequence of add_chunk calls gives when run alone   *)
(* in a single thread (closed where it was closed).                         *)
C17_WriterIndependence ==
    \A t \in Threads :
        (pair[t].wstate # "none" /\ pair[t].pc = "idle") =>
            LET alone == RunAlone(pair[t].initial, pair[t].calls)
            IN  PairResult(t) =
                  IF pair[t].wstate = "closed"
                  THEN [alone EXCEPT !.wstate = "closed"]
                  ELSE alone

(* One writer is closed after two calls while the other thread is inside   *)
(* its second call, the data written and the entry not yet; the writers     *)
(* have reserved different numbers of sectors.                              *)
C17_Witness ==
    /\ pair[1].wstate = "closed"
    /\ Len(pair[1].calls) = 2
    /\ pair[2].pc = "entry"
    /\ Len(pair[2].calls) = 2
    /\ pair[1].used_sectors > pair[2].used_sectors + 1

---------------------------------------------------------------------------
(* strip_chunk: vocabulary of the properties *)

(* The chunk handed in and the chunk returned, as tag trees *)
TreeIn == from_bytes(nbt.data)

TreeOut == from_bytes(stripped.data)

(* No compound element of the `sections` list of a compound has a light array *)
NoLights(compound) ==
    (Has(compound, "sections") /\ get(compound, "sections").tag = "List") =>
        \A i \in DOMAIN get(compound, "sections").elems :
            LET section == get(compound, "sections").elems[i]
            IN  section.tag = "Compound" =>
                  (~Has(section, "SkyLight") /\ ~Has(section, "BlockLight"))

(* The removals have been applied to the children of a compound. *)
Cleared(compound) ==
    /\ ~Has(compound, "Heightmaps")
    /\ ~Has(compound, "isLightOn")
    /\ NoLights(compound)

(* A tag without the fields strip_chunk removes from a section *)
WithoutLights(section) ==
    IF section.tag = "Compound"
    THEN [section EXCEPT !.kids = {k \in @ : k[1] \notin {"SkyLight", "BlockLight"}}]
    ELSE section

Unrelated(compound) ==
    {k \in compound.kids : k[1] \notin {"Heightmaps", "isLightOn", "sections"}}

(* C19: strip_chunk removal. A call of strip_chunk on a chunk whose root is *)
(* a compound returns a chunk with the same position whose root has no      *)
(* child Heightmaps or isLightOn and no SkyLight or BlockLight in a         *)
(* compound element of its sections list; when the root has a Level         *)
(* compound, the same holds of the children of Level.                       *)
C19_StripRemoval ==
    (spc \in {"done", "failed", "panicked"} /\ nbt.data.tag = "Compound") =>
        /\ spc = "done"
        /\ stripped.position = nbt.position
        /\ TreeOut.tag = "Compound"
        /\ Cleared(TreeOut)
        /\ HasLevel(TreeIn) => (HasLevel(TreeOut) /\ Cleared(get(TreeOut, "Level")))

(* C20: strip_chunk preserves unrelated tags. A chunk returned by           *)
(* strip_chunk of commands/strip.rs has the position and the kind of root   *)
(* of the input; its top-level tags other than Heightmaps, isLightOn and    *)
(* sections are those of the input, unchanged; its sections tag, when the   *)
(* input has one, has the same kind and the same number of elements, in the *)
(* same order, each with every field of the input's other than SkyLight     *)
(* and BlockLight.                                                          *)
C20_StripPreservesUnrelated ==
    (variant = "commands" /\ spc = "done") =>
        /\ stripped.position = nbt.position
        /\ TreeOut.tag = TreeIn.tag
        /\ TreeOut.v = TreeIn.v
        /\ TreeOut.tag # "Compound" => TreeOut = TreeIn
        /\ Unrelated(TreeOut) = Unrelated(TreeIn)
        /\ Has(TreeIn, "sections") =>
              /\ Has(TreeOut, "sections")
              /\ LET a == get(TreeIn, "sections")
                     b == get(TreeOut, "sections")
                 IN  /\ b.tag = a.tag
                     /\ b.v = a.v
                     /\ b.kids = a.kids
                     /\ Len(b.elems) = Len(a.elems)
                     /\ a.tag # "List" => b = a
                     /\ \A i \in DOMAIN a.elems :
                           b.elems[i] = WithoutLights(a.elems[i])

(* A chunk with every child of the pool was stripped: the tags removed are  *)
(* gone, and Level, structures and InhabitedTime are there as they were.    *)
C20_Witness ==
    /\ variant = "commands"
    /\ spc = "done"
    /\ {k[1] : k \in TreeIn.kids} = PoolNames
    /\ {k[1] : k \in TreeOut.kids} = PoolNames \ {"Heightmaps", "isLightOn"}
    /\ get(TreeOut, "Level") = get(TreeIn, "Level")
    /\ get(TreeOut, "sections") # get(TreeIn, "sections")
    /\ stripped.data # nbt.data

---------------------------------------------------------------------------
(* C21: strip_chunk is idempotent. When strip_chunk of commands/strip.rs    *)
(* has returned a chunk and a second call on that chunk has returned, the   *)
(* second result is the first, in position and in data.                     *)
C21_StripIdempotent ==
    (variant = "commands" /\ spc = "done again") =>
        /\ restripped.position = stripped.position
        /\ restripped.data = stripped.data

---------------------------------------------------------------------------
(* C22: the header entries of a writer. In every state of a writer, every   *)
(* header entry that is not zero names a sector index of at least 2 and a   *)
(* sector count of at least 1, and its range ends at or before              *)
(* used_sectors.                                                            *)
C22_HeaderEntriesInRange ==
    wstate # "none" =>
        \A i \in DOMAIN file.hdr :
            LET entry == read_entry(file, i)
            IN  entry.some =>
                  /\ entry.sector_index >= 2
                  /\ entry.sector_count >= 1
                  /\ entry.sector_index + entry.sector_count <= used_sectors

---------------------------------------------------------------------------
(* C23: arrival-order allocation. The k-th add_chunk call that returned Ok  *)
(* wrote its stream at sector 2 + (the sector counts of the k - 1 calls     *)
(* before it), over at least one sector; used_sectors is 2 + the sector     *)
(* counts of all of them; so the ranges follow one another in the order of  *)
(* the calls, without a gap, and overlap neither one another nor the two    *)
(* header sectors.                                                          *)
C23_ArrivalOrderAllocation ==
    wstate \in {"open", "closed"} =>
        /\ used_sectors = 2 + SectorsBefore(Len(log) + 1)
        /\ Len(file.ext) = Len(log)
        /\ \A k \in 1..Len(log) :
              /\ log[k].sector_index = 2 + SectorsBefore(k)
              /\ log[k].sector_count >= 1
              /\ file.ext[k].at = log[k].sector_index
              /\ file.ext[k].n = log[k].sector_count
              /\ file.ext[k].frame = create_chunk_data_stream(log[k].data)
              /\ \A j \in 1..(k - 1) :
                    log[j].sector_index + log[j].sector_count <= log[k].sector_index

(* A stream of three sectors was written at sector 2 and a later one at     *)
(* sector 5.                                                                *)
C23_Witness ==
    /\ wstate = "closed"
    /\ Len(log) = 2
    /\ log[1].sector_count = 3
    /\ log[2].sector_index = 5
    /\ file.ext[2].at = 5
    /\ used_sectors = 5 + log[2].sector_count

---------------------------------------------------------------------------
(* C24: the entry decodes to the range reserved. For every add_chunk call   *)
(* that returned Ok and was the last to write its slot, the header entry of *)
(* the slot is present and decodes (upper 24 bits, lower 8 bits) to the     *)
(* sector_index and the sector_count reserved for the call, whatever the    *)
(* size of the stream.                                                      *)
C24_EntryDecodesExactly ==
    wstate \in {"open", "closed"} =>
        \A k \in 1..Len(log) :
            LET i     == EntryIndex(log[k].position)
                entry == read_entry(file, i)
            IN  k = LastOf(WritesOf(i)) =>
                  /\ entry.some
                  /\ entry.sector_index = log[k].sector_index
                  /\ entry.sector_count = log[k].sector_count

---------------------------------------------------------------------------
(* C25: the frame of add_chunk. A call of add_chunk that returns Ok for a   *)
(* position inside the region changes the header entry at index x + z*32    *)
(* and no other (an entry outside the two headers' non-zero entries is zero *)
(* before and after), keeps every stream written before, and writes its     *)
(* own stream past the end of all of them.                                  *)
C25_AddChunkFrame ==
    [][(Len(log') = Len(log) + 1 /\ InRegion(called'.position)) =>
          LET i == SlotOf(called'.position)
          IN  /\ HeaderBytes(file', i) # HeaderBytes(file, i)
              /\ \A j \in (DOMAIN file.hdr \cup DOMAIN file'.hdr) \ {i} :
                    HeaderBytes(file', j) = HeaderBytes(file, j)
              /\ Len(file'.ext) = Len(file.ext) + 1
              /\ SubSeq(file'.ext, 1, Len(file.ext)) = file.ext
              /\ \A k \in 1..Len(file.ext) :
                    file.ext[k].at + file.ext[k].n <= file'.ext[Len(file'.ext)].at]_vars

(* Two calls for two slots of the region have returned Ok: the second left  *)
(* the entry and the stream of the first in place.                          *)
C25_Witness ==
    /\ wstate = "open"
    /\ Len(log) = 2
    /\ InRegion(log[1].position) /\ InRegion(log[2].position)
    /\ DOMAIN file.hdr = {SlotOf(log[1].position), SlotOf(log[2].position)}
    /\ SlotOf(log[1].position) # SlotOf(log[2].position)
    /\ Len(file.ext) = 2

---------------------------------------------------------------------------
(* pack_region: the values *)

(* std::sync::mpsc::sync_channel(4) *)
PACK_CHANNEL_BOUND == 4

(* The most worker threads the pool is built with *)
MaxThreads == 2

(* options.threads.unwrap_or(1): the worker threads of the pool *)
PackThreads == 1..MaxThreads

NoPack == << >>

(* The header of an archive entry and its bytes: the path is                *)
(* r.<region x>.<region z>/c.<chunk x>.<chunk z>.nbt, the size is that of   *)
(* the data.                                                                *)
PackEntry(region_position, chunk) ==
    [path |-> <<"r", region_position.x, region_position.z,
                "c", chunk.position.x, chunk.position.z, "nbt">>,
     data |-> chunk.data]

(* strip_chunk(&chunk)? inside the closure: the chunks it can return *)
PackStripped(chunk) ==
    IF chunk.data.tag = "Invalid" THEN {}
    ELSE {with_data(chunk, data) : data \in to_writer(StripValue(from_bytes(chunk.data)))}

(* strip_chunk(&chunk)? inside the closure returns the error *)
PackStripFails(chunk) == chunk.data.tag # "Compound"

(* As SendHasRoom, had the channel been unbounded. *)
SendHasRoom_Unbounded(queue) == TRUE

(* tx.send on a sync_channel blocks while the buffer is full *)
SendHasRoom(queue) == Len(queue) < PACK_CHANNEL_BOUND

(* The try_for_each of the spawned task has ended, and its closure, which   *)
(* owns tx, is dropped.                                                     *)
PackSenderGone(p) == \A t \in 1..p.threads : p.workers[t].pc = "done"

---------------------------------------------------------------------------
(* pack_region: the spawned task, stream_chunks().par_bridge().try_for_each *)

(* A worker takes the next element of the shared iterator and runs the      *)
(* closure up to tx.send. A panic inside next() and an Err element both end *)
(* the try_for_each with a failure; a worker that took its element before   *)
(* the failure was recorded still runs the closure on it.                   *)
PackTake(t) ==
    /\ pack # NoPack
    /\ t \in 1..pack.threads
    /\ pack.workers[t].pc = "take"
    /\ pack.index < ENTRY_COUNT
    /\ \E result \in ChunkOutcomes(pack.region_file, pack.index) :
          IF result = Panic
          THEN pack' = [pack EXCEPT !.failed = TRUE, !.workers[t].pc = "done"]
          ELSE IF result = Failed
          THEN pack' = [pack EXCEPT !.index = @ + 1, !.failed = TRUE,
                                    !.workers[t].pc = "done"]
          ELSE IF result = Absent
          THEN pack' = [pack EXCEPT !.index = @ + 1]
          ELSE LET chunk == [position |-> result.position, data |-> result.data]
               IN  IF ~pack.strip
                   THEN pack' = [pack EXCEPT !.index = @ + 1,
                                             !.workers[t] = [pc |-> "send", chunk |-> chunk]]
                   ELSE \/ /\ PackStripFails(chunk)
                           /\ pack' = [pack EXCEPT !.index = @ + 1, !.failed = TRUE,
                                                   !.workers[t].pc = "done"]
                        \/ \E stripped_ \in PackStripped(chunk) :
                              pack' = [pack EXCEPT
                                         !.index = @ + 1,
                                         !.workers[t] = [pc |-> "send", chunk |-> stripped_]]
    /\ UNCHANGED <<wvars, rvars, evars, uvars, faults, pair, svars>>

(* tx.send(chunk).unwrap(): blocks while the channel is full, panics when   *)
(* the receiver is dropped.                                                 *)
PackSend(t) ==
    /\ pack # NoPack
    /\ t \in 1..pack.threads
    /\ pack.workers[t].pc = "send"
    /\ IF pack.cons = "panicked"
       THEN pack' = [pack EXCEPT !.failed = TRUE,
                                 !.workers[t] = [pc |-> "done", chunk |-> NoChunk]]
       ELSE /\ SendHasRoom(pack.queue)
            /\ pack' = [pack EXCEPT !.queue = Append(@, pack.workers[t].chunk),
                                    !.workers[t] = [pc |-> "take", chunk |-> NoChunk]]
    /\ UNCHANGED <<wvars, rvars, evars, uvars, faults, pair, svars>>

(* A worker finds the iterator exhausted, or the try_for_each failed *)
PackWorkerEnds(t) ==
    /\ pack # NoPack
    /\ t \in 1..pack.threads
    /\ pack.workers[t].pc = "take"
    /\ pack.index >= ENTRY_COUNT \/ pack.failed
    /\ pack' = [pack EXCEPT !.workers[t].pc = "done"]
    /\ UNCHANGED <<wvars, rvars, evars, uvars, faults, pair, svars>>

---------------------------------------------------------------------------
(* pack_region: the consumer, rx.iter().try_for_each(append_data).unwrap()  *)

(* rx.iter() yields the next chunk *)
PackRecv ==
    /\ pack # NoPack
    /\ pack.cons = "recv"
    /\ pack.queue # << >>
    /\ pack' = [pack EXCEPT !.held = Head(pack.queue),
                            !.queue = Tail(@),
                            !.cons = "append"]
    /\ UNCHANGED <<wvars, rvars, evars, uvars, faults, pair, svars>>

(* archive.append_data(&mut header, path, &*chunk.data) returns Ok *)
PackAppend ==
    /\ pack # NoPack
    /\ pack.cons = "append"
    /\ pack' = [pack EXCEPT !.archive = Append(@, PackEntry(pack.region_position, pack.held)),
                            !.held = NoChunk,
                            !.cons = "recv"]
    /\ UNCHANGED <<wvars, rvars, evars, uvars, faults, pair, svars>>

(* append_data returns an io::Error: try_for_each stops, unwrap panics and  *)
(* the unwinding drops rx with what is still queued.                        *)
PackAppendFails ==
    /\ pack # NoPack
    /\ pack.cons = "append"
    /\ pack' = [pack EXCEPT !.held = NoChunk, !.queue = << >>, !.cons = "panicked"]
    /\ UNCHANGED <<wvars, rvars, evars, uvars, faults, pair, svars>>

(* rx.iter() ends: the channel is empty and tx is dropped *)
PackRecvEnds ==
    /\ pack # NoPack
    /\ pack.cons = "recv"
    /\ pack.queue = << >>
    /\ PackSenderGone(pack)
    /\ pack' = [pack EXCEPT !.cons = "done"]
    /\ UNCHANGED <<wvars, rvars, evars, uvars, faults, pair, svars>>

(* in_place_scope returns when the closure and the spawned task have ended; *)
(* a panic of either is resumed, otherwise pack_region returns Ok(()).      *)
PackReturn ==
    /\ pack # NoPack
    /\ pack.pc = "scope"
    /\ PackSenderGone(pack)
    /\ pack.cons \in {"done", "panicked"}
    /\ pack' = [pack EXCEPT !.pc = IF pack.failed \/ pack.cons = "panicked"
                                   THEN "panicked" ELSE "returned"]
    /\ UNCHANGED <<wvars, rvars, evars, uvars, faults, pair, svars>>

---------------------------------------------------------------------------
(* pack_region: the regions it is given *)

(* The tag tree of a chunk: the light flag strip removes, and its place *)
PackTree(name) ==
    CompoundOf(<< <<"isLightOn", Tag("Byte", "1")>>, <<"Status", Tag("String", name)>> >>)

PackFrame(tree) == Frame(2, "zlib", tree, 13)

(* Six chunks in a row at the end of the header, more than the channel     *)
(* holds                                                                    *)
DenseRegion ==
    RegionOf(8,
             [i \in 1018..1023 |-> EntryData(i - 1016, 1)],
             [k \in 1..6 |-> Extent(1 + k, PackFrame(PackTree("full")))])

(* Chunks far apart, the last slot among them; the bytes of the chunk at    *)
(* slot 1023 are no tag tree.                                               *)
SparseRegion ==
    RegionOf(5,
             (0 :> EntryData(2, 1)) @@ (40 :> EntryData(3, 1)) @@ (1023 :> EntryData(4, 1)),
             << Extent(2, PackFrame(PackTree("empty"))),
                Extent(3, PackFrame(RootOf({"InhabitedTime", "Heightmaps", "structures"}))),
                Extent(4, PackFrame(Invalid)) >>)

(* A region without chunks *)
EmptyRegion == RegionOf(2, << >>, << >>)

(* Compression byte 9 at slot 1, after a valid chunk at slot 0 *)
BadTagRegion ==
    RegionOf(4,
             (0 :> EntryData(2, 1)) @@ (1 :> EntryData(3, 1)),
             << Extent(2, PackFrame(PackTree("full"))),
                Extent(3, Frame(9, "zlib", PackTree("full"), 13)) >>)

(* The entry of slot 1 describes a sector nothing was written to *)
UnwrittenRegion ==
    RegionOf(4,
             (0 :> EntryData(2, 1)) @@ (1 :> EntryData(3, 1)),
             << Extent(2, PackFrame(PackTree("full"))) >>)

PackRegions == {DenseRegion, SparseRegion, EmptyRegion, BadTagRegion, UnwrittenRegion}

(* RegionFile::parse_name of the file name *)
PackRegionPositions == {ChunkPos(-1, 2)}

(* pack_region up to the spawn: the region is open, the pool is built, the  *)
(* channel is empty.                                                        *)
InitPack ==
    /\ UnpackOff /\ StripOff /\ WriterOff /\ ReaderOff /\ EntryOff
    /\ faults = << >>
    /\ pair = << >>
    /\ \E f \in PackRegions, r \in PackRegionPositions, n \in PackThreads, s \in BOOLEAN :
          pack = [region_file     |-> f,
                  region_position |-> r,
                  threads         |-> n,
                  strip           |-> s,
                  index           |-> 0,
                  workers         |-> [t \in 1..n |-> [pc |-> "take", chunk |-> NoChunk]],
                  failed          |-> FALSE,
                  queue           |-> << >>,
                  held            |-> NoChunk,
                  cons            |-> "recv",
                  archive         |-> << >>,
                  pc              |-> "scope"]

NextPack ==
    \/ \E t \in PackThreads : PackTake(t) \/ PackSend(t) \/ PackWorkerEnds(t)
    \/ PackRecv
    \/ PackAppend
    \/ PackAppendFails
    \/ PackRecvEnds
    \/ PackReturn

SpecPack == InitPack /\ [][NextPack]_vars

---------------------------------------------------------------------------
(* pack_region: the vocabulary of its properties *)

(* The slots of a region that hold a chunk *)
PresentSlots(f) == {i \in DOMAIN f.hdr : read_entry(f, i).some}

(* Every slot decodes without error *)
DecodesClean(f) ==
    \A i \in DOMAIN f.hdr : \A result \in ChunkOutcomes(f, i) : result.kind = "chunk"

(* The chunk a slot that decodes holds *)
ChunkAt(f, i) ==
    LET result == CHOOSE r \in ChunkOutcomes(f, i) : r.kind = "chunk"
    IN  [position |-> result.position, data |-> result.data]

(* strip_chunk, where it is applied, fails on no chunk of the region *)
StripsClean(p) ==
    p.strip => \A i \in PresentSlots(p.region_file) :
                   ~PackStripFails(ChunkAt(p.region_file, i))

(* Nothing has failed so far: no element, no strip_chunk, no append *)
NoPackError(p) == ~p.failed /\ p.cons # "panicked"

PackEnded(p) == p.pc \in {"returned", "panicked"}

(* The chunks on their way, from the workers' hands to the archive, by      *)
(* position                                                                 *)
InHand(p) == {t \in 1..p.threads : p.workers[t].pc = "send"}

Occurrences(p, pos) ==
      Cardinality({t \in InHand(p) : p.workers[t].chunk.position = pos})
    + Cardinality({k \in DOMAIN p.queue : p.queue[k].position = pos})
    + (IF p.cons = "append" /\ p.held.position = pos THEN 1 ELSE 0)
    + Cardinality({k \in DOMAIN p.archive :
                      p.archive[k].path = <<"r", p.region_position.x, p.region_position.z,
                                            "c", pos.x, pos.z, "nbt">>})

(* The bytes pack_region may append for the chunk of a slot *)
PackedData(p, i) ==
    LET chunk == ChunkAt(p.region_file, i)
    IN  IF p.strip
        THEN {c.data : c \in PackStripped(chunk)}
        ELSE {chunk.data}

(* Every archive entry is the chunk of a present slot, under its path *)
EntriesOfPresent(p) ==
    \A k \in DOMAIN p.archive :
        \E i \in PresentSlots(p.region_file) :
            /\ i < p.index
            /\ p.archive[k].path = <<"r", p.region_position.x, p.region_position.z,
                                     "c", i % 32, i \div 32, "nbt">>
            /\ p.archive[k].data \in PackedData(p, i)

(* One archive entry for each present chunk, none besides *)
PackComplete(p) ==
    /\ Len(p.archive) = Cardinality(PresentSlots(p.region_file))
    /\ EntriesOfPresent(p)
    /\ \A i \in PresentSlots(p.region_file) : Occurrences(p, SlotPosition(i)) = 1

====
